---- MODULE Spec2Model ----
(***************************************************************************)
(* A model of the NBA feature pipeline: the Elo replay of                  *)
(* utils/save_season_elo.py, the point-in-time aggregator of               *)
(* utils/compute_aggregated_stats.py, and the assembler and dataset        *)
(* builder of utils/data_generator.py.                                     *)
(*                                                                         *)
(* Representation.  A Python str is a sequence of one-character strings,   *)
(* so that split, strip, "in" and str.contains are computed, not assumed.  *)
(* A date is a day number.  A pandas table is a sequence of rows, a row a  *)
(* record keyed by column name.  A float rating is a fixed-point integer   *)
(* counting 1/Unit rating points; a probability counts 1/Precision.        *)
(***************************************************************************)
EXTENDS Integers, Sequences, FiniteSets, TLC

VARIABLES
    games_df,   \* compute_season_elo: the season table being replayed
    elo,        \* compute_season_elo: team -> list of <<date, rating>>
    row,        \* index of the next row of the running iterrows() loop
    pc,         \* control point: "replay", "done", "failed" in
                \* compute_season_elo; "build", "saved", "nothing", "raised"
                \* in generate_training_data; "idle" outside both
    elo_df,     \* the rating table (rows Team, Date, Elo)
    team_df,    \* the team-game table
    player_df,  \* the player-game table
    args,       \* generate_training_data: lag and n_players
    X_list,     \* generate_training_data: the feature vectors kept
    y_list,     \* generate_training_data: the labels kept
    game_ids,   \* generate_training_data: the GAME_IDs kept
    columns,    \* generate_training_data: the names generate_X returned last
    training_data   \* generate_training_data: the table written

tables == <<elo_df, team_df, player_df>>
builder == <<args, X_list, y_list, game_ids, columns, training_data>>
vars == <<games_df, elo, row, pc, elo_df, team_df, player_df, args,
          X_list, y_list, game_ids, columns, training_data>>

\* Python's None, and a value that is not None.
None == [none |-> TRUE]
Some(x) == [none |-> FALSE, val |-> x]

\* The builder before generate_training_data is called.
NoBuild ==
    /\ args = None
    /\ X_list = <<>>
    /\ y_list = <<>>
    /\ game_ids = <<>>
    /\ columns = None
    /\ training_data = None

----------------------------------------------------------------------------
(* Bounds of the model. *)

MaxGames == 2

\* The lookup tables of the aggregator hold at most MaxRecords rows in all,
\* dated 1..MaxDate; a block has at most MaxPlayers slots.
MaxRecords == 2
MaxDate == 2
MaxPlayers == 3

----------------------------------------------------------------------------
(* Python strings. *)

Last(s) == s[Len(s)]

RECURSIVE Find(_, _, _)
Find(s, sub, i) ==
    IF i + Len(sub) - 1 > Len(s) THEN 0
    ELSE IF SubSeq(s, i, i + Len(sub) - 1) = sub THEN i
    ELSE Find(s, sub, i + 1)

Contains(s, sub) == Find(s, sub, 1) # 0

RECURSIVE Split(_, _)
Split(s, sep) ==
    LET j == Find(s, sep, 1)
    IN  IF j = 0 THEN <<s>>
        ELSE <<SubSeq(s, 1, j - 1)>> \o Split(SubSeq(s, j + Len(sep), Len(s)), sep)

RECURSIVE Strip(_)
Strip(s) ==
    IF s = <<>> THEN s
    ELSE IF s[1] = " " THEN Strip(Tail(s))
    ELSE IF s[Len(s)] = " " THEN Strip(SubSeq(s, 1, Len(s) - 1))
    ELSE s

----------------------------------------------------------------------------
(* The team-game table: one row per team per game. *)

Teams == {<<"A">>, <<"B">>, <<"C">>}

TEAM_STATS_COLUMNS ==
    <<"FGM", "FGA", "FG_PCT", "FG3M", "FG3A", "FG3_PCT",
      "FTM", "FTA", "FT_PCT", "OREB", "DREB", "REB", "AST",
      "STL", "BLK", "TOV", "PF", "PTS", "PLUS_MINUS">>

PLAYER_STATS_COLUMNS ==
    <<"MIN", "FGM", "FGA", "FG_PCT", "FG3M", "FG3A", "FG3_PCT",
      "FTM", "FTA", "FT_PCT", "OREB", "DREB", "REB", "AST",
      "STL", "BLK", "TOV", "PF", "PTS", "PLUS_MINUS">>

Range(s) == {s[i] : i \in DOMAIN s}

IndexOf(s, x) == CHOOSE i \in DOMAIN s : s[i] = x

\* The statistics of one box-score line: column c holds v + (place of c).
StatCells(cols, v) == [c \in Range(cols) |-> v + IndexOf(cols, c)]

\* A row of the league game log.  The home side reads "T vs. O", the away
\* side "T @ O".
TeamRow(team, opp, home, date, wl, gid, v) ==
    [TEAM_ABBREVIATION |-> team,
     MATCHUP |-> team \o (IF home THEN <<" ", "v", "s", ".", " ">>
                                  ELSE <<" ", "@", " ">>) \o opp,
     GAME_DATE |-> date, WL |-> wl, GAME_ID |-> gid]
    @@ StatCells(TEAM_STATS_COLUMNS, v)

\* A physical game: played `gap` days after the game before it (the first
\* game `gap` days after day 1), won or lost by the home side.
Games ==
    {[gap |-> g, home |-> p[1], away |-> p[2], wl |-> w] :
        g \in {0, 1},
        p \in {<<<<"A">>, <<"B">>>>, <<<<"C">>, <<"A">>>>},
        w \in {"W", "L"}}

Schedules ==
    UNION {[1..n -> Games] : n \in 1..MaxGames}

RECURSIVE GameDate(_, _)
GameDate(s, i) == IF i = 0 THEN 1 ELSE GameDate(s, i - 1) + s[i].gap

Opposite(wl) == IF wl = "W" THEN "L" ELSE "W"

\* The table of a schedule: the home row then the away row of every game,
\* in date order.
LeagueGameLog(s) ==
    [k \in 1..(2 * Len(s)) |->
        LET i == (k + 1) \div 2
            g == s[i]
        IN  IF k % 2 = 1
            THEN TeamRow(g.home, g.away, TRUE, GameDate(s, i), g.wl, i,
                         IF g.wl = "W" THEN 2 ELSE 1)
            ELSE TeamRow(g.away, g.home, FALSE, GameDate(s, i), Opposite(g.wl), i,
                         IF g.wl = "W" THEN 1 ELSE 2)]

----------------------------------------------------------------------------
(* utils/save_season_elo.py *)

K_FACTOR == 20
M == 400
STARTING_ELO == 1000

\* Fixed point: a rating counts 1/Unit points, a probability 1/Precision.
Unit == 10 ^ 2
Precision == 10 ^ 4

\* Division rounding toward zero.
Div(a, b) == IF a >= 0 THEN a \div b ELSE -((-a) \div b)

\* e^y for y >= 0 by its power series, y and the result in 1/Precision.
RECURSIVE ExpSeries(_, _, _)
ExpSeries(y, term, k) ==
    IF term = 0 THEN 0
    ELSE term + ExpSeries(y, (term * y) \div (k * Precision), k + 1)

\* 10 ** x, x and the result in 1/Precision; ln 10 = 2.3026.
Pow10(x) ==
    IF x >= 0 THEN ExpSeries((x * 23026) \div Precision, Precision, 1)
    ELSE (Precision * Precision)
            \div ExpSeries(((-x) * 23026) \div Precision, Precision, 1)

\* 1 / (1 + 10**((elo_b - elo_a) / m))
expected_outcome(elo_a, elo_b, m) ==
    (Precision * Precision)
        \div (Precision + Pow10(Div((elo_b - elo_a) * Precision, m * Unit)))

\* elo_a + k * (actual_score - expected_outcome(elo_a, elo_b, m))
update_elo(elo_a, elo_b, actual_score, k, m) ==
    elo_a + Div(k * Unit * (actual_score * Precision - expected_outcome(elo_a, elo_b, m)),
                Precision)

Opponent(game) == Last(Split(game.MATCHUP, <<" ">>))

Winner(game) ==
    IF game.WL = "W" THEN game.TEAM_ABBREVIATION ELSE Opponent(game)

Loser(game) ==
    IF game.WL = "W" THEN Opponent(game) ELSE game.TEAM_ABBREVIATION

\* Rows in non-decreasing date order.
DateOrdered(df) ==
    \A i \in 1..(Len(df) - 1) : df[i].GAME_DATE <= df[i + 1].GAME_DATE

\* One row per team per game: every row has exactly one other row of the
\* same game, that of the other side.
OneRowPerSide(df) ==
    \A i \in DOMAIN df :
        Cardinality({j \in DOMAIN df :
            /\ j # i
            /\ df[j].GAME_ID = df[i].GAME_ID}) = 1
        /\ \E j \in DOMAIN df :
            /\ j # i
            /\ df[j].GAME_ID = df[i].GAME_ID
            /\ df[j].GAME_DATE = df[i].GAME_DATE
            /\ df[j].TEAM_ABBREVIATION = Opponent(df[i])
            /\ Opponent(df[j]) = df[i].TEAM_ABBREVIATION

\* No team plays two different games on one date.
OneGamePerDay(df) ==
    \A i, j \in DOMAIN df :
        (/\ df[i].GAME_ID # df[j].GAME_ID
         /\ df[i].GAME_DATE = df[j].GAME_DATE)
        => {df[i].TEAM_ABBREVIATION, Opponent(df[i])}
            \cap {df[j].TEAM_ABBREVIATION, Opponent(df[j])} = {}

\* elo_formula with the loser updated against the winner's new rating.
elo_formula_stale_winner(game, e, k, m) ==
    LET winner == Winner(game)
        loser == Loser(game)
        date == game.GAME_DATE
    IN  IF winner \notin DOMAIN e \/ loser \notin DOMAIN e
        THEN [raised |-> "KeyError"]
        ELSE
            LET winner_elo == Last(e[winner])[2]
                loser_elo == Last(e[loser])[2]
                new_winner_elo == update_elo(winner_elo, loser_elo, 1, k, m)
                new_loser_elo == update_elo(loser_elo, new_winner_elo, 0, k, m)
                e1 == [e EXCEPT ![winner] = Append(@, <<date, new_winner_elo>>)]
            IN  [raised |-> "",
                 elo |-> [e1 EXCEPT ![loser] = Append(@, <<date, new_loser_elo>>)]]

\* elo_formula giving a side that has no series one that starts at
\* STARTING_ELO the day before the game.
elo_formula_setdefault(game, e, k, m) ==
    LET winner == Winner(game)
        loser == Loser(game)
        date == game.GAME_DATE
        e0 == [t \in DOMAIN e \cup {winner, loser} |->
                IF t \in DOMAIN e THEN e[t]
                ELSE <<<<date - 1, STARTING_ELO * Unit>>>>]
        winner_elo == Last(e0[winner])[2]
        loser_elo == Last(e0[loser])[2]
        new_winner_elo == update_elo(winner_elo, loser_elo, 1, k, m)
        new_loser_elo == update_elo(loser_elo, winner_elo, 0, k, m)
        e1 == [e0 EXCEPT ![winner] = Append(@, <<date, new_winner_elo>>)]
    IN  [raised |-> "",
         elo |-> [e1 EXCEPT ![loser] = Append(@, <<date, new_loser_elo>>)]]

\* elo_formula carrying every other team's rating forward to the game's date.
elo_formula_carry_all(game, e, k, m) ==
    LET winner == Winner(game)
        loser == Loser(game)
        date == game.GAME_DATE
    IN  IF winner \notin DOMAIN e \/ loser \notin DOMAIN e
        THEN [raised |-> "KeyError"]
        ELSE
            LET winner_elo == Last(e[winner])[2]
                loser_elo == Last(e[loser])[2]
                new_winner_elo == update_elo(winner_elo, loser_elo, 1, k, m)
                new_loser_elo == update_elo(loser_elo, winner_elo, 0, k, m)
                e1 == [t \in DOMAIN e |-> Append(e[t], <<date, Last(e[t])[2]>>)]
                e2 == [e1 EXCEPT ![winner] = Append(e[winner], <<date, new_winner_elo>>)]
            IN  [raised |-> "",
                 elo |-> [e2 EXCEPT ![loser] = Append(e[loser], <<date, new_loser_elo>>)]]

\* elo_formula applying a game once: a row is passed over when both sides
\* already have an entry of its date.
elo_formula_once_per_game(game, e, k, m) ==
    LET winner == Winner(game)
        loser == Loser(game)
        date == game.GAME_DATE
    IN  IF winner \notin DOMAIN e \/ loser \notin DOMAIN e
        THEN [raised |-> "KeyError"]
        ELSE IF Last(e[winner])[1] = date /\ Last(e[loser])[1] = date
        THEN [raised |-> "", elo |-> e]
        ELSE
            LET winner_elo == Last(e[winner])[2]
                loser_elo == Last(e[loser])[2]
                new_winner_elo == update_elo(winner_elo, loser_elo, 1, k, m)
                new_loser_elo == update_elo(loser_elo, winner_elo, 0, k, m)
                e1 == [e EXCEPT ![winner] = Append(@, <<date, new_winner_elo>>)]
            IN  [raised |-> "",
                 elo |-> [e1 EXCEPT ![loser] = Append(@, <<date, new_loser_elo>>)]]

\* elo_formula: the dictionary after the game, or KeyError when a side has
\* no series (both series are read before either is appended to).
elo_formula(game, e, k, m) ==
    LET winner == Winner(game)
        loser == Loser(game)
        date == game.GAME_DATE
    IN  IF winner \notin DOMAIN e \/ loser \notin DOMAIN e
        THEN [raised |-> "KeyError"]
        ELSE
            LET winner_elo == Last(e[winner])[2]
                loser_elo == Last(e[loser])[2]
                new_winner_elo == update_elo(winner_elo, loser_elo, 1, k, m)
                new_loser_elo == update_elo(loser_elo, winner_elo, 0, k, m)
                e1 == [e EXCEPT ![winner] = Append(@, <<date, new_winner_elo>>)]
            IN  [raised |-> "",
                 elo |-> [e1 EXCEPT ![loser] = Append(@, <<date, new_loser_elo>>)]]

initialize_elo(teams, start_date) ==
    [team \in teams |-> <<<<start_date - 1, STARTING_ELO * Unit>>>>]

UniqueTeams(df) == {df[i].TEAM_ABBREVIATION : i \in DOMAIN df}

MinDate(df) ==
    CHOOSE d \in {df[i].GAME_DATE : i \in DOMAIN df} :
        \A i \in DOMAIN df : d <= df[i].GAME_DATE

\* The order of a dictionary's keys: the order of first appearance in the
\* TEAM_ABBREVIATION column.
RECURSIVE UniqueOrder(_, _)
UniqueOrder(df, seen) ==
    IF df = <<>> THEN <<>>
    ELSE IF df[1].TEAM_ABBREVIATION \in seen THEN UniqueOrder(Tail(df), seen)
    ELSE <<df[1].TEAM_ABBREVIATION>>
            \o UniqueOrder(Tail(df), seen \cup {df[1].TEAM_ABBREVIATION})

\* The rating table: the teams' series one after the other.
RECURSIVE RatingTable(_, _)
RatingTable(e, order) ==
    IF order = <<>> THEN <<>>
    ELSE [i \in 1..Len(e[order[1]]) |->
            [Date |-> e[order[1]][i][1], Elo |-> e[order[1]][i][2], Team |-> order[1]]]
         \o RatingTable(e, Tail(order))

\* A table whose last game has no outcome yet: the WL of its rows is
\* neither 'W' nor 'L'.
Unplayed(df, unplayed) ==
    [i \in DOMAIN df |->
        IF unplayed /\ df[i].GAME_ID = df[Len(df)].GAME_ID
        THEN [df[i] EXCEPT !.WL = ""]
        ELSE df[i]]

\* The tables compute_season_elo is given: the log of a season, whole or
\* without its last row, its last game played or not.
SeasonTables ==
    {Unplayed(SubSeq(LeagueGameLog(s), 1, 2 * Len(s) - missing), unplayed) :
        s \in Schedules, missing \in {0, 1}, unplayed \in BOOLEAN}

\* compute_season_elo, lines 57-62.
SeasonInit ==
    \E df \in SeasonTables :
        /\ games_df = df
        /\ elo = initialize_elo(UniqueTeams(df), MinDate(df))
        /\ row = 1
        /\ pc = "replay"
        /\ elo_df = <<>>
        /\ team_df = <<>>
        /\ player_df = <<>>
        /\ NoBuild

\* compute_season_elo, lines 65-66: one turn of the loop.
ReplayGame ==
    /\ pc = "replay"
    /\ row <= Len(games_df)
    /\ LET r == elo_formula(games_df[row], elo, K_FACTOR, M)
       IN  IF r.raised = ""
           THEN /\ elo' = r.elo
                /\ row' = row + 1
                /\ pc' = pc
           ELSE /\ pc' = "failed"
                /\ UNCHANGED <<elo, row>>
    /\ UNCHANGED <<games_df, tables, builder>>

\* compute_season_elo, lines 69-75: the series as one table.
ReturnRatings ==
    /\ pc = "replay"
    /\ row > Len(games_df)
    /\ elo_df' = RatingTable(elo, UniqueOrder(games_df, {}))
    /\ pc' = "done"
    /\ UNCHANGED <<games_df, elo, row, team_df, player_df, builder>>

Init == SeasonInit

Next == ReplayGame \/ ReturnRatings

Spec == Init /\ [][Next]_vars

----------------------------------------------------------------------------
(* utils/compute_aggregated_stats.py *)

\* A float of a feature vector is an exact fraction <<numerator,
\* denominator>> in lowest terms.
RECURSIVE GCD(_, _)
GCD(a, b) == IF b = 0 THEN a ELSE GCD(b, a % b)

Lowest(n, d, g) == <<Div(n, g), d \div g>>

Frac(n, d) == Lowest(n, d, GCD(IF n >= 0 THEN n ELSE -n, d))

Zero == Frac(0, 1)

RECURSIVE Sum(_)
Sum(xs) == IF xs = <<>> THEN 0 ELSE xs[1] + Sum(Tail(xs))

\* DataFrame[col].sum()
ColumnSum(df, col) == Sum([i \in DOMAIN df |-> df[i][col]])

\* DataFrame[col].mean()
ColumnMean(df, col) == Frac(ColumnSum(df, col), Len(df))

\* A row put in its place in rows sorted by descending GAME_DATE, after the
\* rows of its own date.
RECURSIVE InsertDesc(_, _)
InsertDesc(sorted, r) ==
    IF sorted = <<>> THEN <<r>>
    ELSE IF sorted[1].GAME_DATE >= r.GAME_DATE
    THEN <<sorted[1]>> \o InsertDesc(Tail(sorted), r)
    ELSE <<r>> \o sorted

\* df.sort_values(by='GAME_DATE', ascending=False), by insertion.
RECURSIVE SortByDateDesc(_)
SortByDateDesc(df) ==
    IF df = <<>> THEN <<>>
    ELSE InsertDesc(SortByDateDesc(SubSeq(df, 1, Len(df) - 1)), df[Len(df)])

\* get_current_elo with the rows dated game_date kept.
get_current_elo_through(df, team, game_date) ==
    LET Keep(r) == r.Team = team /\ r.Date <= game_date
        team_elo_df == SelectSeq(df, Keep)
    IN  IF team_elo_df = <<>> THEN [raised |-> "ValueError"]
        ELSE [raised |-> "", value |-> Last(team_elo_df).Elo]

\* get_current_elo: the last row, in table order, of the team's rows dated
\* before game_date.
get_current_elo(df, team, game_date) ==
    LET Keep(r) == r.Team = team /\ r.Date < game_date
        team_elo_df == SelectSeq(df, Keep)
    IN  IF team_elo_df = <<>> THEN [raised |-> "ValueError"]
        ELSE [raised |-> "", value |-> Last(team_elo_df).Elo]

\* get_team_stats_average, lines 47-49, of the team's rows before the date.
avg_team_stats(team_stats) ==
    IF team_stats = <<>> THEN [raised |-> "ValueError"]
    ELSE [raised |-> "",
          values |-> [i \in DOMAIN TEAM_STATS_COLUMNS |->
                        ColumnMean(SortByDateDesc(team_stats), TEAM_STATS_COLUMNS[i])],
          columns |-> [i \in DOMAIN TEAM_STATS_COLUMNS |-> <<TEAM_STATS_COLUMNS[i]>>]]

\* list[:k]
Prefix(xs, k) == SubSeq(xs, 1, IF k < Len(xs) THEN k ELSE Len(xs))

\* get_team_stats_average over the lag most recent rows.
get_team_stats_average_last_n(df, team, game_date, lag) ==
    LET Keep(r) == r.TEAM_ABBREVIATION = team /\ r.GAME_DATE < game_date
    IN  avg_team_stats(Prefix(SortByDateDesc(SelectSeq(df, Keep)), lag))

\* get_team_stats_average: lag is not read.
get_team_stats_average(df, team, game_date, lag) ==
    LET Keep(r) == r.TEAM_ABBREVIATION = team /\ r.GAME_DATE < game_date
    IN  avg_team_stats(SelectSeq(df, Keep))

\* The rows of one player.
RowsOf(df, player) ==
    LET Keep(r) == r.Player_ID = player
    IN  SelectSeq(df, Keep)

\* groupby('Player_ID')['MIN'].sum()
SummedMinutes(df, player) == ColumnSum(RowsOf(df, player), "MIN")

\* The keys of a groupby('Player_ID'), ascending.
Ascending(ids) ==
    [k \in 1..Cardinality(ids) |->
        CHOOSE p \in ids : Cardinality({q \in ids : q < p}) = k - 1]

\* Series.nlargest: a player comes before another with fewer summed minutes
\* and, of two with equal summed minutes, the one first in the grouped
\* index (ascending Player_ID) comes first.
Outranks(minutes_p, p, minutes_q, q) ==
    \/ minutes_p > minutes_q
    \/ minutes_p = minutes_q /\ p < q

\* nlargest with players of equal summed minutes taken in the order of
\* their first rows in the table.
NLargest_by_rows(df, ids, n) ==
    [k \in 1..(IF n < Cardinality(ids) THEN n ELSE Cardinality(ids)) |->
        CHOOSE p \in ids :
            Cardinality({q \in ids :
                Outranks(SummedMinutes(df, q),
                         CHOOSE i \in DOMAIN df :
                            /\ df[i].Player_ID = q
                            /\ \A j \in 1..(i - 1) : df[j].Player_ID # q,
                         SummedMinutes(df, p),
                         CHOOSE i \in DOMAIN df :
                            /\ df[i].Player_ID = p
                            /\ \A j \in 1..(i - 1) : df[j].Player_ID # p)}) = k - 1]

\* groupby('Player_ID')['MIN'].sum().nlargest(n).index.tolist()
NLargest(df, ids, n) ==
    [k \in 1..(IF n < Cardinality(ids) THEN n ELSE Cardinality(ids)) |->
        CHOOSE p \in ids :
            Cardinality({q \in ids :
                Outranks(SummedMinutes(df, q), q, SummedMinutes(df, p), p)}) = k - 1]

PlayerIds(df) == {df[i].Player_ID : i \in DOMAIN df}

\* The statistics of a player block: PLAYER_STATS_COLUMNS[1:].
BlockStats == Tail(PLAYER_STATS_COLUMNS)

\* ndarray.flatten() of a two-dimensional array, row by row.
RECURSIVE Flatten(_)
Flatten(rows) == IF rows = <<>> THEN <<>> ELSE rows[1] \o Flatten(Tail(rows))

\* One row of means per player of ids, in the order of ids.
MeansOf(df, ids) ==
    [j \in DOMAIN ids |->
        [i \in DOMAIN BlockStats |-> ColumnMean(RowsOf(df, ids[j]), BlockStats[i])]]

\* groupby('Player_ID')[PLAYER_STATS_COLUMNS[1:]].mean().values: one row of
\* means per player, players in ascending Player_ID.
GroupedMeans(df) == MeansOf(df, Ascending(PlayerIds(df)))

\* np.zeros(k), nothing when k is not positive.
Zeros(k) == [i \in 1..k |-> Zero]

\* Lines 66-70 with the padding counted in rows kept instead of players.
avg_player_stats_by_rows(top_player_stats, n_players) ==
    Flatten(GroupedMeans(top_player_stats))
        \o Zeros((n_players - Len(top_player_stats)) * Len(BlockStats))

\* Lines 66-70: the kept players' means, padded with zeros to n_players.
avg_player_stats(top_player_stats, n_players) ==
    Flatten(GroupedMeans(top_player_stats))
        \o Zeros((n_players - Cardinality(PlayerIds(top_player_stats)))
                    * Len(BlockStats))

\* Lines 72-75: Player_<slot>_<statistic>.
player_columns(n_players) ==
    [k \in 1..(n_players * Len(BlockStats)) |->
        <<"Player", ToString(((k - 1) \div Len(BlockStats)) + 1),
          BlockStats[((k - 1) % Len(BlockStats)) + 1]>>]

\* Line 64 keeping the rows of every player.
top_player_stats_all(last_n_games, top_players) == last_n_games

\* Line 64: the rows of the players of top_players[:len(last_n_games)].
top_player_stats(last_n_games, top_players) ==
    LET InTop(r) == r.Player_ID \in Range(Prefix(top_players, Len(last_n_games)))
    IN  SelectSeq(last_n_games, InTop)

\* Lines 64-79, given the ranking.
PlayerBlock(kept, top_players, n_players) ==
    [raised |-> "",
     values |-> avg_player_stats(kept, n_players),
     columns |-> player_columns(n_players),
     top_players |-> Prefix(top_players, Len(kept))]

\* Lines 61-79, given the rows sorted.
TopNAverage(last_n_games, top_players, n_players) ==
    PlayerBlock(top_player_stats(last_n_games, top_players), top_players, n_players)

\* Lines 58-79, given the qualifying rows.
Ranked(last_n_games, n_players) ==
    IF last_n_games = <<>> THEN [raised |-> "ValueError"]
    ELSE TopNAverage(last_n_games,
                     NLargest(last_n_games, PlayerIds(last_n_games), n_players),
                     n_players)

\* get_player_stats_top_n_average: lag is not read.
get_player_stats_top_n_average(df, team, game_date, lag, n_players) ==
    LET Keep(r) == Contains(r.MATCHUP, team) /\ r.GAME_DATE < game_date
    IN  Ranked(SortByDateDesc(SelectSeq(df, Keep)), n_players)

\* compute_stats, lines 92-95.
combined(current_elo, team_avg, player_avg) ==
    IF current_elo.raised # "" THEN [raised |-> current_elo.raised]
    ELSE IF team_avg.raised # "" THEN [raised |-> team_avg.raised]
    ELSE IF player_avg.raised # "" THEN [raised |-> player_avg.raised]
    ELSE [raised |-> "",
          values |-> <<Frac(current_elo.value, 1)>>
                        \o team_avg.values \o player_avg.values,
          columns |-> <<<<"Elo">>>> \o team_avg.columns \o player_avg.columns,
          top_players |-> player_avg.top_players]

\* compute_stats: the first lookup that raises ends the call.
compute_stats(ratings, games, players, team, game_date, lag, n_players) ==
    combined(get_current_elo(ratings, team, game_date),
             get_team_stats_average(games, team, game_date, lag),
             get_player_stats_top_n_average(players, team, game_date, lag, n_players))

----------------------------------------------------------------------------
(* The tables the aggregator is given: whatever the parquet files hold. *)

RatingRows ==
    [Team : {<<"A">>, <<"B">>}, Date : 1..MaxDate,
     Elo : {990 * Unit, 1010 * Unit}]

TeamGameRows ==
    {TeamRow(t, <<"C">>, TRUE, d, "W", 1, v) :
        t \in {<<"A">>, <<"B">>}, d \in 1..MaxDate, v \in {1, 2}}

\* A row of a player's game log: the statistics follow the minutes.
PlayerRow(player, matchup, date, minutes) ==
    [Player_ID |-> player, MATCHUP |-> matchup, GAME_DATE |-> date,
     MIN |-> minutes]
    @@ StatCells(BlockStats, minutes)

\* The game logs of two players of team A, home against B.
PlayerGameRows ==
    {PlayerRow(p, <<"A", " ", "v", "s", ".", " ", "B">>, d, mi) :
        p \in {1, 2}, d \in 1..MaxDate, mi \in {10, 20}}

RemoveAt(df, i) == SubSeq(df, 1, i - 1) \o SubSeq(df, i + 1, Len(df))

\* The rows that differ from row r in one cell (the statistics of a row
\* counting as one cell).
OneCellFrom(rows, r, cells) ==
    {q \in rows : Cardinality({c \in cells : q[c] # r[c]}) = 1}

TablesInit ==
    /\ elo_df = <<>>
    /\ team_df = <<>>
    /\ player_df = <<>>
    /\ games_df = <<>>
    /\ elo = <<>>
    /\ row = 0
    /\ pc = "idle"
    /\ NoBuild

\* A record more at the end of a file.  Each lookup reads one table, so the
\* three tables are explored one at a time.
AddRecord ==
    /\ \/ /\ Len(elo_df) < MaxRecords /\ team_df = <<>> /\ player_df = <<>>
          /\ \E r \in RatingRows : elo_df' = Append(elo_df, r)
          /\ UNCHANGED <<team_df, player_df>>
       \/ /\ Len(team_df) < MaxRecords /\ elo_df = <<>> /\ player_df = <<>>
          /\ \E r \in TeamGameRows : team_df' = Append(team_df, r)
          /\ UNCHANGED <<elo_df, player_df>>
       \/ /\ Len(player_df) < MaxRecords /\ elo_df = <<>> /\ team_df = <<>>
          /\ \E r \in PlayerGameRows : player_df' = Append(player_df, r)
          /\ UNCHANGED <<elo_df, team_df>>
    /\ UNCHANGED <<games_df, elo, row, pc, builder>>

\* A record less in a file.
RemoveRecord ==
    /\ \/ /\ \E i \in DOMAIN elo_df : elo_df' = RemoveAt(elo_df, i)
          /\ UNCHANGED <<team_df, player_df>>
       \/ /\ \E i \in DOMAIN team_df : team_df' = RemoveAt(team_df, i)
          /\ UNCHANGED <<elo_df, player_df>>
       \/ /\ \E i \in DOMAIN player_df : player_df' = RemoveAt(player_df, i)
          /\ UNCHANGED <<elo_df, team_df>>
    /\ UNCHANGED <<games_df, elo, row, pc, builder>>

\* One cell of a record of a file changed.
ChangeRecord ==
    /\ \/ /\ \E i \in DOMAIN elo_df :
                \E r \in OneCellFrom(RatingRows, elo_df[i], {"Team", "Date", "Elo"}) :
                    elo_df' = [elo_df EXCEPT ![i] = r]
          /\ UNCHANGED <<team_df, player_df>>
       \/ /\ \E i \in DOMAIN team_df :
                \E r \in OneCellFrom(TeamGameRows, team_df[i],
                                     {"TEAM_ABBREVIATION", "GAME_DATE", "PTS"}) :
                    team_df' = [team_df EXCEPT ![i] = r]
          /\ UNCHANGED <<elo_df, player_df>>
       \/ /\ \E i \in DOMAIN player_df :
                \E r \in OneCellFrom(PlayerGameRows, player_df[i],
                                     {"Player_ID", "GAME_DATE", "MIN"}) :
                    player_df' = [player_df EXCEPT ![i] = r]
          /\ UNCHANGED <<elo_df, team_df>>
    /\ UNCHANGED <<games_df, elo, row, pc, builder>>

TablesNext == AddRecord \/ RemoveRecord \/ ChangeRecord

SpecAgg == TablesInit /\ [][TablesNext]_vars

----------------------------------------------------------------------------
(* utils/compute_game_result.py and utils/data_generator.py *)

\* f"Team_1_{col}" for col in columns
Prefixed(side, cols) == [i \in DOMAIN cols |-> <<side>> \o cols[i]]

\* Lines 36-72 keeping team 1's half when team 2's lookups raise.
concatenated_partial(stats_team1, stats_team2) ==
    IF stats_team1.raised # "" THEN [raised |-> "", X |-> None, columns |-> None]
    ELSE IF stats_team2.raised # ""
    THEN [raised |-> "", X |-> Some(stats_team1.values),
          columns |-> Some(Prefixed("Team_1", stats_team1.columns))]
    ELSE [raised |-> "", X |-> Some(stats_team1.values \o stats_team2.values),
          columns |-> Some(Prefixed("Team_1", stats_team1.columns)
                            \o Prefixed("Team_2", stats_team2.columns))]

\* Lines 36-72 with the two halves of the vector exchanged.
concatenated_swapped(stats_team1, stats_team2) ==
    IF stats_team1.raised # "" \/ stats_team2.raised # ""
    THEN [raised |-> "", X |-> None, columns |-> None]
    ELSE [raised |-> "", X |-> Some(stats_team2.values \o stats_team1.values),
          columns |-> Some(Prefixed("Team_1", stats_team1.columns)
                            \o Prefixed("Team_2", stats_team2.columns))]

\* generate_X, lines 36-72, given what the two compute_stats calls did: a
\* ValueError of either is caught and (None, None) returned; any other
\* exception leaves the function.
concatenated(stats_team1, stats_team2) ==
    LET exception == IF stats_team1.raised # "" THEN stats_team1.raised
                     ELSE stats_team2.raised
    IN  IF exception = "ValueError"
        THEN [raised |-> "", X |-> None, columns |-> None]
        ELSE IF exception # "" THEN [raised |-> exception]
        ELSE [raised |-> "", X |-> Some(stats_team1.values \o stats_team2.values),
              columns |-> Some(Prefixed("Team_1", stats_team1.columns)
                                \o Prefixed("Team_2", stats_team2.columns))]

\* generate_X
generate_X(ratings, games, players, team1, team2, game_date, lag, n_players) ==
    concatenated(
        compute_stats(ratings, games, players, team1, game_date, lag, n_players),
        compute_stats(ratings, games, players, team2, game_date, lag, n_players))

\* A row put in its place in rows sorted by GAME_DATE, after the rows of
\* its own date.
RECURSIVE InsertAsc(_, _)
InsertAsc(sorted, r) ==
    IF sorted = <<>> THEN <<r>>
    ELSE IF sorted[1].GAME_DATE <= r.GAME_DATE
    THEN <<sorted[1]>> \o InsertAsc(Tail(sorted), r)
    ELSE <<r>> \o sorted

\* df.sort_values(by='GAME_DATE'), by insertion.
RECURSIVE SortByDate(_)
SortByDate(df) ==
    IF df = <<>> THEN <<>>
    ELSE InsertAsc(SortByDate(SubSeq(df, 1, Len(df) - 1)), df[Len(df)])

\* get_team_win_loss_record, lines 35-36: the WIN column.
WithWin(win_loss) ==
    [i \in DOMAIN win_loss |->
        [GAME_DATE |-> win_loss[i].GAME_DATE,
         MATCHUP |-> win_loss[i].MATCHUP,
         WL |-> win_loss[i].WL,
         WIN |-> IF win_loss[i].WL = "W" THEN 1 ELSE 0]]

\* get_team_win_loss_record, lines 31-38, of the team's games kept.
win_loss_record(team_games) ==
    IF team_games = <<>> THEN [raised |-> "ValueError"]
    ELSE [raised |-> "", win_loss |-> WithWin(SortByDate(team_games))]

\* get_team_win_loss_record, called with a game_date.
get_team_win_loss_record(df, team, game_date) ==
    LET Keep(r) == r.TEAM_ABBREVIATION = team /\ r.GAME_DATE <= game_date
    IN  win_loss_record(SelectSeq(df, Keep))

\* Lines 87-92 returning the team's latest result up to game_date.
game_result_latest(record, game_date) ==
    IF record.raised # "" THEN [raised |-> record.raised]
    ELSE [raised |-> "", y |-> Last(record.win_loss).WIN]

\* generate_y, lines 87-92, given the record.
game_result(record, game_date) ==
    LET OnDate(r) == r.GAME_DATE = game_date
    IN  IF record.raised # "" THEN [raised |-> record.raised]
        ELSE IF SelectSeq(record.win_loss, OnDate) = <<>>
        THEN [raised |-> "ValueError"]
        ELSE [raised |-> "", y |-> SelectSeq(record.win_loss, OnDate)[1].WIN]

\* generate_y
generate_y(result_df, team, game_date) ==
    game_result(get_team_win_loss_record(result_df, team, game_date), game_date)

\* generate_training_data, lines 142-145: split(sep)[1].strip()
SecondPart(parts) ==
    IF Len(parts) < 2 THEN [raised |-> "IndexError"]
    ELSE [raised |-> "", parsed |-> TRUE, team2 |-> Strip(parts[2])]

\* generate_training_data, lines 141-148: the opponent of a MATCHUP.
ParseMatchup(matchup) ==
    IF Contains(matchup, <<"v", "s", ".">>)
    THEN SecondPart(Split(matchup, <<" ", "v", "s", ".", " ">>))
    ELSE IF Contains(matchup, <<"@">>)
    THEN SecondPart(Split(matchup, <<" ", "@", " ">>))
    ELSE [raised |-> "", parsed |-> FALSE]

\* compute_season_elo, lines 65-66, from row i on, given what the call for
\* the row before did.
RECURSIVE Replay(_, _, _)
Replay(df, r, i) ==
    IF r.raised # "" \/ i > Len(df) THEN r
    ELSE Replay(df, elo_formula(df[i], r.elo, K_FACTOR, M), i + 1)

\* compute_season_elo as a function of the table: the rating file.
compute_season_elo(df) ==
    RatingTable(Replay(df, [raised |-> "",
                            elo |-> initialize_elo(UniqueTeams(df), MinDate(df))],
                       1).elo,
                UniqueOrder(df, {}))

\* The players of a team.
Roster(team) ==
    IF team = <<"A">> THEN <<1, 2>>
    ELSE IF team = <<"B">> THEN <<3>>
    ELSE <<4>>

\* The box score of one side of a game: a row per player of the team.
SideBoxScore(game_row) ==
    LET ids == Roster(game_row.TEAM_ABBREVIATION)
    IN  [j \in DOMAIN ids |->
            PlayerRow(ids[j], game_row.MATCHUP, game_row.GAME_DATE,
                      10 * (((ids[j] + game_row.GAME_DATE) % 3) + 1))]

\* The player file of the games of a table.
RECURSIVE BoxScores(_)
BoxScores(df) ==
    IF df = <<>> THEN <<>> ELSE SideBoxScore(df[1]) \o BoxScores(Tail(df))

\* The rows of a table from game k on.
FromGame(df, k) == SubSeq(df, 2 * k - 1, Len(df))

\* A row of team A that is no half of a game of the season: one whose
\* MATCHUP has neither "vs." nor "@", one whose "vs." is not set off by
\* spaces, one whose MATCHUP ends with a space, and one against a team that
\* may have played no game.
StrayRows(date, gid) ==
    {[TeamRow(<<"A">>, <<"B">>, TRUE, date, "W", gid, 1)
        EXCEPT !.MATCHUP = <<"A", " ", "-", " ", "B">>],
     [TeamRow(<<"A">>, <<"B">>, TRUE, date, "W", gid, 1)
        EXCEPT !.MATCHUP = <<"A", " ", "v", "s", ".", " ", "B", " ">>],
     [TeamRow(<<"A">>, <<"B">>, TRUE, date, "W", gid, 1)
        EXCEPT !.MATCHUP = <<"A", " ", "v", "s", ".", "B">>],
     TeamRow(<<"A">>, <<"C">>, TRUE, date, "W", gid, 1)}

\* The files a build is given.  The rating file and the player file hold
\* the season from its first or from its second game on; the team file
\* holds the season, with or without a stray row after it.
Scenarios(s) ==
    {[ratings_from |-> r, players_from |-> p, n_players |-> MaxPlayers,
      stray |-> <<>>] : r \in 1..(IF Len(s) > 1 THEN 2 ELSE 1),
                      p \in 1..(IF Len(s) > 1 THEN 2 ELSE 1)}
    \cup {[ratings_from |-> 1, players_from |-> 1, n_players |-> 1,
           stray |-> <<>>]}
    \cup {[ratings_from |-> 1, players_from |-> 1, n_players |-> MaxPlayers,
           stray |-> <<x>>] :
                x \in StrayRows(GameDate(s, Len(s)) + 1, Len(s) + 1)}

\* generate_training_data, lines 120-134.  Only the days between games
\* matter to a build, so the season starts on day 1.
BuildInit ==
    \E s \in Schedules : \E f \in Scenarios(s) :
        /\ s[1].gap = 0
        /\ team_df = LeagueGameLog(s) \o f.stray
        /\ elo_df = compute_season_elo(FromGame(LeagueGameLog(s), f.ratings_from))
        /\ player_df = BoxScores(FromGame(LeagueGameLog(s), f.players_from))
        /\ args = [lag |-> 1, n_players |-> f.n_players]
        /\ X_list = <<>>
        /\ y_list = <<>>
        /\ game_ids = <<>>
        /\ columns = None
        /\ training_data = None
        /\ row = 1
        /\ pc = "build"
        /\ games_df = <<>>
        /\ elo = <<>>

\* Lines 152-177 with the GAME_ID kept before the row is known to be good.
AppendRow_id_first(game_id, made, y) ==
    /\ game_ids' = Append(game_ids, game_id)
    /\ IF made.raised # ""
       THEN UNCHANGED <<X_list, y_list, columns>>
       ELSE /\ columns' = made.columns
            /\ IF made.X = None \/ y.raised # ""
               THEN UNCHANGED <<X_list, y_list>>
               ELSE /\ X_list' = Append(X_list, made.X.val)
                    /\ y_list' = Append(y_list, y.y)

\* generate_training_data, lines 152-177, given what generate_X and
\* generate_y do for the row.  An exception of either is caught at line 179.
AppendRow(game_id, made, y) ==
    IF made.raised # ""
    THEN UNCHANGED <<X_list, y_list, game_ids, columns>>
    ELSE /\ columns' = made.columns
         /\ IF made.X = None \/ y.raised # ""
            THEN UNCHANGED <<X_list, y_list, game_ids>>
            ELSE /\ X_list' = Append(X_list, made.X.val)
                 /\ y_list' = Append(y_list, y.y)
                 /\ game_ids' = Append(game_ids, game_id)

\* generate_training_data, lines 137-181, given the opponent parsed.
Turn(game_row, opponent) ==
    IF opponent.raised # ""
    THEN /\ pc' = "raised"
         /\ UNCHANGED <<row, X_list, y_list, game_ids, columns>>
    ELSE /\ row' = row + 1
         /\ pc' = pc
         /\ IF ~ opponent.parsed
            THEN UNCHANGED <<X_list, y_list, game_ids, columns>>
            ELSE AppendRow(game_row.GAME_ID,
                         generate_X(elo_df, team_df, player_df,
                                    game_row.TEAM_ABBREVIATION, opponent.team2,
                                    game_row.GAME_DATE, args.lag, args.n_players),
                         generate_y(team_df, game_row.TEAM_ABBREVIATION,
                                    game_row.GAME_DATE))

\* generate_training_data, lines 135-181: one turn of the loop.
BuildRow ==
    /\ pc = "build"
    /\ row <= Len(team_df)
    /\ Turn(team_df[row], ParseMatchup(team_df[row].MATCHUP))
    /\ UNCHANGED <<games_df, elo, tables, args, training_data>>

\* pd.DataFrame(X_array, columns=None) numbers the columns from 0.
DefaultColumns(width) == [i \in 1..width |-> <<ToString(i - 1)>>]

\* generate_training_data, lines 183-201: the table written, or nothing.
FinishBuild ==
    /\ pc = "build"
    /\ row > Len(team_df)
    /\ IF X_list # <<>> /\ y_list # <<>>
       THEN /\ training_data' =
                Some([columns |-> <<<<"GAME_ID">>>>
                                    \o (IF columns = None
                                        THEN DefaultColumns(Len(X_list[1]))
                                        ELSE columns.val)
                                    \o <<<<"Win">>>>,
                      rows |-> [i \in DOMAIN X_list |->
                                    [GAME_ID |-> game_ids[i], X |-> X_list[i],
                                     Win |-> y_list[i]]]])
            /\ pc' = "saved"
       ELSE /\ training_data' = None
            /\ pc' = "nothing"
    /\ UNCHANGED <<games_df, elo, row, tables, args, X_list, y_list, game_ids,
                   columns>>

BuildNext == BuildRow \/ FinishBuild

SpecBuild == BuildInit /\ [][BuildNext]_vars

----------------------------------------------------------------------------
(* The point-in-time aggregator: claims C4, C5, C6, C7. *)

\* The as-of dates asked for.
QueryDates == 1..(MaxDate + 1)

\* The rows dated strictly before d, in table order.
Earlier(df, col, d) ==
    LET Keep(r) == r[col] < d
    IN  SelectSeq(df, Keep)

\* C4: a step that adds, removes or changes only records dated on or after
\* D leaves get_current_elo, get_team_stats_average and
\* get_player_stats_top_n_average as of D unchanged, for every team.
C4_PointInTimeCutoff ==
    [][\A t \in Teams : \A d \in QueryDates :
        /\ (elo_df' # elo_df
            /\ Earlier(elo_df', "Date", d) = Earlier(elo_df, "Date", d))
            => get_current_elo(elo_df', t, d) = get_current_elo(elo_df, t, d)
        /\ (team_df' # team_df
            /\ Earlier(team_df', "GAME_DATE", d) = Earlier(team_df, "GAME_DATE", d))
            => get_team_stats_average(team_df', t, d, 1)
                = get_team_stats_average(team_df, t, d, 1)
        /\ (player_df' # player_df
            /\ Earlier(player_df', "GAME_DATE", d) = Earlier(player_df, "GAME_DATE", d))
            => \A n \in 0..MaxPlayers :
                get_player_stats_top_n_average(player_df', t, d, 1, n)
                    = get_player_stats_top_n_average(player_df, t, d, 1, n)]_vars

\* A table holds a record dated on or after an as-of date at which the
\* lookup of the same team succeeds.
C4_Witness ==
    \E t \in Teams : \E d \in QueryDates :
        /\ get_current_elo(elo_df, t, d).raised = ""
        /\ \E i \in DOMAIN elo_df : elo_df[i].Team = t /\ elo_df[i].Date >= d

\* C5: whatever the order of the rating table's rows, get_current_elo
\* returns the Elo of the team's entry of greatest Date among its entries
\* dated strictly before the as-of date.
C5_MostRecentRating ==
    \A t \in Teams : \A d \in QueryDates :
        LET r == get_current_elo(elo_df, t, d)
            Mine(i) == elo_df[i].Team = t /\ elo_df[i].Date < d
        IN  r.raised = ""
            => \E i \in DOMAIN elo_df :
                /\ Mine(i)
                /\ elo_df[i].Elo = r.value
                /\ \A j \in DOMAIN elo_df : Mine(j) => elo_df[j].Date <= elo_df[i].Date

\* The player rows that qualify for a team as of a date.
Qualifying(df, team, d) ==
    LET Keep(r) == Contains(r.MATCHUP, team) /\ r.GAME_DATE < d
    IN  SelectSeq(df, Keep)

\* The per-statistic means of one player.
PlayerMeans(df, player) ==
    [i \in DOMAIN BlockStats |-> ColumnMean(RowsOf(df, player), BlockStats[i])]

\* Slot i of a block of values.
Slot(values, i) == SubSeq(values, (i - 1) * 19 + 1, i * 19)

\* C6: a returned block has n * 19 values and n * 19 column names; with
\* k < n distinct qualifying players the first k slots are those players'
\* means and every value after them is zero.
C6_BlockWidth ==
    \A t \in Teams : \A d \in QueryDates : \A n \in 0..MaxPlayers :
        LET r == get_player_stats_top_n_average(player_df, t, d, 1, n)
            q == Qualifying(player_df, t, d)
            k == Cardinality(PlayerIds(q))
        IN  r.raised = ""
            => /\ Len(r.values) = n * 19
               /\ Len(r.columns) = n * 19
               /\ k < n
                   => /\ \A p \in PlayerIds(q) :
                            \E i \in 1..k : Slot(r.values, i) = PlayerMeans(q, p)
                      /\ \A i \in (k * 19 + 1)..(n * 19) : r.values[i] = Zero

\* Two players qualify and a block of three slots is returned.
C6_Witness ==
    \E t \in Teams : \E d \in QueryDates :
        /\ get_player_stats_top_n_average(player_df, t, d, 1, 3).raised = ""
        /\ Cardinality(PlayerIds(Qualifying(player_df, t, d))) = 2

\* C7: slot i of a returned block holds the means of the player with the
\* i-th largest summed minutes.
C7_SlotsByRank ==
    \A t \in Teams : \A d \in QueryDates : \A n \in 0..MaxPlayers :
        LET r == get_player_stats_top_n_average(player_df, t, d, 1, n)
            q == Qualifying(player_df, t, d)
        IN  r.raised = ""
            => \A i \in 1..Len(r.top_players) :
                    Slot(r.values, i) = PlayerMeans(q, r.top_players[i])

----------------------------------------------------------------------------
(* The assembler and the labels: claims C8, C9, C10. *)

\* A team has no rating entry, no team game row or no player row dated
\* strictly before d.
Lacks(team, d) ==
    \/ ~ \E i \in DOMAIN elo_df :
            elo_df[i].Team = team /\ elo_df[i].Date < d
    \/ ~ \E i \in DOMAIN team_df :
            team_df[i].TEAM_ABBREVIATION = team /\ team_df[i].GAME_DATE < d
    \/ ~ \E i \in DOMAIN player_df :
            Contains(player_df[i].MATCHUP, team) /\ player_df[i].GAME_DATE < d

\* The builder is in its loop, at a row of the team table.
AtRow == pc = "build" /\ row <= Len(team_df)

\* The width of one team's half of a vector.
HalfWidth == 1 + Len(TEAM_STATS_COLUMNS) + args.n_players * Len(BlockStats)

\* C8: for the tables of the build, the subject team and the date of any of
\* its rows and any second team, generate_X never raises; it returns (None, None) whenever either team
\* lacks a rating entry, a team game row or a player row before the date;
\* and when it returns a vector all six lookups succeed and the vector is
\* whole.
C8_SkipOnMissingData ==
    AtRow =>
        \A team2 \in Teams :
            LET team1 == team_df[row].TEAM_ABBREVIATION
                d == team_df[row].GAME_DATE
                g == generate_X(elo_df, team_df, player_df, team1, team2, d,
                                args.lag, args.n_players)
            IN  /\ g.raised = ""
                /\ (Lacks(team1, d) \/ Lacks(team2, d))
                    => (g.X = None /\ g.columns = None)
                /\ g.X # None
                    => /\ \A t \in {team1, team2} :
                            /\ get_current_elo(elo_df, t, d).raised = ""
                            /\ get_team_stats_average(team_df, t, d, args.lag).raised = ""
                            /\ get_player_stats_top_n_average(
                                    player_df, t, d, args.lag, args.n_players).raised = ""
                       /\ Len(g.X.val) = 2 * HalfWidth
                       /\ Len(g.columns.val) = 2 * HalfWidth

\* The builder has just skipped a row whose subject team lacks nothing and
\* whose opponent lacks something: generate_X returned (None, None).
C8_Witness ==
    /\ pc = "build"
    /\ row > 1
    /\ columns = None
    /\ X_list = <<>>
    /\ ~ Lacks(team_df[row - 1].TEAM_ABBREVIATION, team_df[row - 1].GAME_DATE)
    /\ ParseMatchup(team_df[row - 1].MATCHUP).raised = ""
    /\ ParseMatchup(team_df[row - 1].MATCHUP).parsed
    /\ Lacks(ParseMatchup(team_df[row - 1].MATCHUP).team2, team_df[row - 1].GAME_DATE)

\* compute_stats(team, d) is the rating, then the team-stat means, then the
\* player block, values and names alike.
InOrder(s, team, d) ==
    LET w == Len(TEAM_STATS_COLUMNS)
        block == get_player_stats_top_n_average(player_df, team, d, args.lag,
                                                args.n_players)
    IN  /\ s.values[1] = Frac(get_current_elo(elo_df, team, d).value, 1)
        /\ s.columns[1] = <<"Elo">>
        /\ SubSeq(s.values, 2, w + 1)
            = get_team_stats_average(team_df, team, d, args.lag).values
        /\ \A i \in 1..w : s.columns[i + 1] = <<TEAM_STATS_COLUMNS[i]>>
        /\ SubSeq(s.values, w + 2, Len(s.values)) = block.values
        /\ SubSeq(s.columns, w + 2, Len(s.columns)) = block.columns

\* C9: when generate_X(a, b, date) returns a vector, its first half is
\* compute_stats(a, date), its second half compute_stats(b, date), and its
\* columns are compute_stats' columns for a prefixed Team_1 then those for b
\* prefixed Team_2, each in the order rating, team-stat means, player block.
C9_RoundTrip ==
    AtRow =>
        \A b \in Teams :
            LET a == team_df[row].TEAM_ABBREVIATION
                d == team_df[row].GAME_DATE
                g == generate_X(elo_df, team_df, player_df, a, b, d,
                                args.lag, args.n_players)
                sa == compute_stats(elo_df, team_df, player_df, a, d,
                                    args.lag, args.n_players)
                sb == compute_stats(elo_df, team_df, player_df, b, d,
                                    args.lag, args.n_players)
            IN  (g.raised = "" /\ g.X # None)
                => LET half == Len(g.X.val) \div 2
                   IN  /\ Len(g.X.val) = 2 * half
                       /\ SubSeq(g.X.val, 1, half) = sa.values
                       /\ SubSeq(g.X.val, half + 1, 2 * half) = sb.values
                       /\ Len(g.columns.val) = 2 * half
                       /\ \A i \in 1..half :
                            /\ g.columns.val[i] = <<"Team_1">> \o sa.columns[i]
                            /\ g.columns.val[half + i] = <<"Team_2">> \o sb.columns[i]
                       /\ InOrder(sa, a, d)
                       /\ InOrder(sb, b, d)

\* The builder has just kept a vector whose two halves differ.
C9_Witness ==
    /\ pc = "build"
    /\ row > 1
    /\ columns # None
    /\ X_list # <<>>
    /\ LET X == Last(X_list)
       IN  SubSeq(X, 1, Len(X) \div 2) # SubSeq(X, (Len(X) \div 2) + 1, Len(X))

\* The rows of the team table that are a team's record on a date.
RecordsOn(team, d) ==
    {i \in DOMAIN team_df :
        team_df[i].TEAM_ABBREVIATION = team /\ team_df[i].GAME_DATE = d}

\* C10: the label appended with a row is 1 if the subject team's record on
\* the row's date (the team having one record on that date) has WL = 'W'
\* and 0 otherwise; generate_y raises for a team and a date with no record
\* on exactly that date; and a turn of the loop in which generate_y raises
\* appends nothing and goes on to the next row.
C10_LabelResolution ==
    [][/\ \A t \in Teams : \A d \in 1..(MaxGames + 1) :
            RecordsOn(t, d) = {}
                => generate_y(team_df, t, d).raised = "ValueError"
       /\ Len(y_list') = Len(y_list) + 1
            => LET records == RecordsOn(team_df[row].TEAM_ABBREVIATION,
                                        team_df[row].GAME_DATE)
               IN  /\ Last(y_list') \in {0, 1}
                   /\ \A i \in records :
                        records = {i}
                            => (Last(y_list') = 1 <=> team_df[i].WL = "W")
       /\ (AtRow /\ generate_y(team_df, team_df[row].TEAM_ABBREVIATION,
                               team_df[row].GAME_DATE).raised # "")
            => /\ row' = row + 1
               /\ pc' = "build"
               /\ UNCHANGED <<X_list, y_list, game_ids>>]_vars

\* A row has been appended with label 1 and another with label 0.
C10_Witness ==
    /\ \E i \in DOMAIN y_list : y_list[i] = 1
    /\ \E i \in DOMAIN y_list : y_list[i] = 0
    /\ Len(X_list) = Len(y_list)

----------------------------------------------------------------------------
(* The dataset builder: claims C11, C12, C13, C14, C16, C20. *)

\* A matchup of the form "X vs. Y" or "X @ Y", X and Y not empty.
InGrammar(matchup) ==
    \E sep \in {<<" ", "v", "s", ".", " ">>, <<" ", "@", " ">>} :
        \E k \in 2..(Len(matchup) - Len(sep)) :
            SubSeq(matchup, k, k + Len(sep) - 1) = sep

\* C11: a turn of the loop at a row whose matchup is not of the form
\* "X vs. Y" or "X @ Y" goes on to the next row with the three buffers as
\* they were, and does not end the build.
C11_UnparsedRowSkipped ==
    [][(AtRow /\ ~ InGrammar(team_df[row].MATCHUP))
        => /\ row' = row + 1
           /\ pc' = "build"
           /\ UNCHANGED <<X_list, y_list, game_ids>>]_vars

\* C12: once every row has been iterated with nothing assembled, the build
\* has ended with an error raised to its caller.
C12_EmptyBuildFails ==
    (pc # "build" /\ row > Len(team_df) /\ X_list = <<>>) => pc = "raised"

\* What generate_X returns for row i of the team table.
MadeFor(i) ==
    generate_X(elo_df, team_df, player_df, team_df[i].TEAM_ABBREVIATION,
               ParseMatchup(team_df[i].MATCHUP).team2, team_df[i].GAME_DATE,
               args.lag, args.n_players)

\* The rows of the team table for which generate_X returns a vector.
Assembled ==
    {i \in DOMAIN team_df :
        /\ ParseMatchup(team_df[i].MATCHUP).raised = ""
        /\ ParseMatchup(team_df[i].MATCHUP).parsed
        /\ MadeFor(i).X # None}

\* C13: the feature columns of the table written are named and ordered as
\* the column list returned by the first successful assembly.
C13_ColumnsOfFirstAssembly ==
    (pc = "saved" /\ Assembled # {})
    => LET first == CHOOSE i \in Assembled : \A j \in Assembled : i <= j
           names == training_data.val.columns
       IN  SubSeq(names, 2, Len(names) - 1) = MadeFor(first).columns.val

\* C14: the table written from a team table with one row per team per game
\* has no two rows with the same GAME_ID.
C14_OneRowPerGame ==
    (pc = "saved" /\ OneRowPerSide(team_df))
    => \A i, j \in DOMAIN training_data.val.rows :
            i # j => training_data.val.rows[i].GAME_ID
                        # training_data.val.rows[j].GAME_ID

----------------------------------------------------------------------------
(* The rating replay: claim C15. *)

\* C15: a call of elo_formula for a row whose winner or loser is not among
\* the initialized teams raises, changes no series, and ends the replay
\* without a rating table; no table is returned afterwards.
C15_UnknownTeamAborts ==
    [][/\ (/\ pc = "replay"
           /\ row <= Len(games_df)
           /\ {Winner(games_df[row]), Loser(games_df[row])}
                \ UniqueTeams(games_df) # {})
        => /\ elo_formula(games_df[row], elo, K_FACTOR, M).raised = "KeyError"
           /\ pc' = "failed"
           /\ elo' = elo
           /\ elo_df' = <<>>
       /\ pc = "failed" => (pc' = "failed" /\ elo_df' = <<>>)]_vars

\* The replay has failed after applying at least one row.
C15_Witness ==
    /\ pc = "failed"
    /\ row > 1
    /\ elo_df = <<>>
    /\ \E t \in DOMAIN elo : Len(elo[t]) > 1

----------------------------------------------------------------------------
(* The dataset builder: claims C16, C20. *)

\* C16: every vector in the feature buffer has 2 * (1 + 19 + n_players * 19)
\* values.
C16_ConstantWidth ==
    \A i \in DOMAIN X_list : Len(X_list[i]) = 2 * (1 + 19 + args.n_players * 19)

\* The number of distinct players with rows that qualify for a team.
Found(team, d) == Cardinality(PlayerIds(Qualifying(player_df, team, d)))

\* The build is over with a vector kept whose two teams have different
\* numbers of distinct players with rows before the date.
C16_Witness ==
    /\ pc = "saved"
    /\ \E i \in Assembled :
        Found(team_df[i].TEAM_ABBREVIATION, team_df[i].GAME_DATE)
            # Found(ParseMatchup(team_df[i].MATCHUP).team2, team_df[i].GAME_DATE)

----------------------------------------------------------------------------
(* The lookback count: claim C17. *)

\* The lag values asked for.
Lags == 1..MaxGames

\* The rows of a team dated strictly before d.
TeamRowsBefore(team, d) ==
    LET Keep(r) == r.TEAM_ABBREVIATION = team /\ r.GAME_DATE < d
    IN  SelectSeq(team_df, Keep)

----------------------------------------------------------------------------
(* The top-n selection: claims C18, C19. *)

\* A table with its rows in another order.
Reordered(df, f) == [i \in DOMAIN df |-> df[f[i]]]

\* C18: the players of a returned block are min(n, k) of the k distinct
\* players with qualifying rows, none of them with fewer summed minutes
\* than a player left out, and they and the block are the same for every
\* order of the rows of the player table.
C18_TopNSelection ==
    \A t \in Teams : \A d \in QueryDates : \A n \in 0..MaxPlayers :
        LET r == get_player_stats_top_n_average(player_df, t, d, 1, n)
            q == Qualifying(player_df, t, d)
            k == Cardinality(PlayerIds(q))
            chosen == Range(r.top_players)
        IN  r.raised = ""
            => /\ Len(r.top_players) = (IF n < k THEN n ELSE k)
               /\ Cardinality(chosen) = Len(r.top_players)
               /\ chosen \subseteq PlayerIds(q)
               /\ \A p \in chosen : \A x \in PlayerIds(q) \ chosen :
                    SummedMinutes(q, p) >= SummedMinutes(q, x)
               /\ \A f \in Permutations(DOMAIN player_df) :
                    get_player_stats_top_n_average(
                        Reordered(player_df, f), t, d, 1, n) = r

\* Two players tie on summed minutes and a block of one slot is returned.
C18_Witness ==
    \E t \in Teams : \E d \in QueryDates :
        LET q == Qualifying(player_df, t, d)
        IN  /\ get_player_stats_top_n_average(player_df, t, d, 1, 1).raised = ""
            /\ Cardinality(PlayerIds(q)) = 2
            /\ \A p, x \in PlayerIds(q) : SummedMinutes(q, p) = SummedMinutes(q, x)

\* C19: every player row that qualifies for a team as of a date is a row of
\* a player of that team: the team is the first token of the row's MATCHUP.
C19_OwnPlayersOnly ==
    \A t \in Teams : \A d \in QueryDates :
        LET q == Qualifying(player_df, t, d)
        IN  get_player_stats_top_n_average(player_df, t, d, 1, MaxPlayers).raised = ""
            => \A i \in DOMAIN q : Split(q[i].MATCHUP, <<" ">>)[1] = t

----------------------------------------------------------------------------
(* The buffers of the dataset builder: claim C20. *)

\* C20: the three buffers have equal lengths before and after every step;
\* a step leaves all three as they were or appends to each of them one
\* entry, that of the row being processed: its vector, its label and its
\* GAME_ID.
C20_BuffersInStep ==
    [][/\ Len(X_list) = Len(y_list) /\ Len(y_list) = Len(game_ids)
       /\ Len(X_list') = Len(y_list') /\ Len(y_list') = Len(game_ids')
       /\ \/ UNCHANGED <<X_list, y_list, game_ids>>
          \/ /\ AtRow
             /\ row' = row + 1
             /\ X_list' = Append(X_list, MadeFor(row).X.val)
             /\ y_list' = Append(y_list, generate_y(team_df,
                                    team_df[row].TEAM_ABBREVIATION,
                                    team_df[row].GAME_DATE).y)
             /\ game_ids' = Append(game_ids, team_df[row].GAME_ID)]_vars

\* Two rows have been kept and at least one row before them skipped.
C20_Witness ==
    /\ pc = "build"
    /\ Len(game_ids) = 2
    /\ Len(X_list) = 2
    /\ Len(y_list) = 2
    /\ row > 3

----------------------------------------------------------------------------
(* The rating replay: claim C21. *)

\* Series `after` is series `before` with one entry of the given date after
\* it.
Extended(before, after, date) ==
    /\ Len(after) = Len(before) + 1
    /\ SubSeq(after, 1, Len(before)) = before
    /\ Last(after)[1] = date

\* Every series starts with 1000 on the day before the table's first date.
Seeded(e) ==
    \A t \in DOMAIN e :
        e[t][1] = <<MinDate(games_df) - 1, STARTING_ELO * Unit>>

\* C21: in every state of the replay each team's series starts with the
\* entry (earliest date of the table - 1, 1000); a call of elo_formula that
\* returns leaves the winner's and the loser's series as they were with one
\* entry of the game's date after them and every other series as it was;
\* no other step changes a series.
C21_AppendOnlySeries ==
    [][/\ Seeded(elo)
       /\ Seeded(elo')
       /\ DOMAIN elo' = DOMAIN elo
       /\ row' = row => elo' = elo
       /\ row' = row + 1 =>
            \A t \in DOMAIN elo :
                IF t \in {Winner(games_df[row]), Loser(games_df[row])}
                THEN Extended(elo[t], elo'[t], games_df[row].GAME_DATE)
                ELSE elo'[t] = elo[t]]_vars

\* A game has been applied to two teams twice while a third team has only
\* its first entry.
C21_Witness ==
    /\ pc = "replay"
    /\ row = 3
    /\ \E t \in DOMAIN elo : Len(elo[t]) = 1
    /\ \E t \in DOMAIN elo : Len(elo[t]) = 3

----------------------------------------------------------------------------
(* The two opponent parsers: claim C22. *)

\* C22: for every row of the team table from whose MATCHUP the builder's
\* "vs." / "@" rule obtains an opponent, the last space-separated token of
\* that MATCHUP, which is the rating replay's opponent, is the same team.
C22_ParsersAgree ==
    \A i \in DOMAIN team_df :
        (/\ ParseMatchup(team_df[i].MATCHUP).raised = ""
         /\ ParseMatchup(team_df[i].MATCHUP).parsed)
        => Opponent(team_df[i]) = ParseMatchup(team_df[i].MATCHUP).team2

----------------------------------------------------------------------------
(* The rating replay: claim C23. *)

\* The input rows in which a team is the subject team or the opponent.
Appearances(team) ==
    {i \in DOMAIN games_df :
        team \in {games_df[i].TEAM_ABBREVIATION, Opponent(games_df[i])}}

\* The place in a team's series of the entry made for input row i.
EntryOf(team, i) ==
    1 + Cardinality({j \in Appearances(team) : j <= i})

\* The entry made for input row i moved the team's rating up (or down).
Moved(team, i, up) ==
    /\ elo[team][EntryOf(team, i)][1] = games_df[i].GAME_DATE
    /\ IF up
       THEN elo[team][EntryOf(team, i)][2] > elo[team][EntryOf(team, i) - 1][2]
       ELSE elo[team][EntryOf(team, i)][2] < elo[team][EntryOf(team, i) - 1][2]

\* C23: when compute_season_elo has returned, every team's series, in the
\* dictionary and in the returned table, has 1 + r entries, r the number of
\* input rows in which the team is the subject or the opponent; the entry
\* of each row is a rise for the subject and a fall for the opponent when
\* WL is 'W', and a fall for the subject and a rise for the opponent
\* otherwise; so the two rows of a game won by one side and lost by the
\* other move each side twice in the same direction.
C23_OneUpdatePerRow ==
    pc = "done" =>
        /\ \A team \in DOMAIN elo :
            /\ Len(elo[team]) = 1 + Cardinality(Appearances(team))
            /\ Cardinality({k \in DOMAIN elo_df : elo_df[k].Team = team})
                = 1 + Cardinality(Appearances(team))
        /\ \A i \in DOMAIN games_df :
            /\ Moved(games_df[i].TEAM_ABBREVIATION, i, games_df[i].WL = "W")
            /\ Moved(Opponent(games_df[i]), i, games_df[i].WL # "W")
        /\ \A i, j \in DOMAIN games_df :
            (/\ games_df[i].GAME_ID = games_df[j].GAME_ID
             /\ games_df[i].WL = "W"
             /\ games_df[j].WL = "L"
             /\ games_df[j].TEAM_ABBREVIATION = Opponent(games_df[i])
             /\ games_df[i].TEAM_ABBREVIATION = Opponent(games_df[j]))
            => /\ Moved(games_df[i].TEAM_ABBREVIATION, i, TRUE)
               /\ Moved(games_df[i].TEAM_ABBREVIATION, j, TRUE)
               /\ Moved(games_df[j].TEAM_ABBREVIATION, i, FALSE)
               /\ Moved(games_df[j].TEAM_ABBREVIATION, j, FALSE)

\* The replay of two games has returned: a team that played in both has
\* five entries, and the rows of the last game have no outcome.
C23_Witness ==
    /\ pc = "done"
    /\ \E team \in DOMAIN elo : Len(elo[team]) = 5
    /\ \E team \in DOMAIN elo : Len(elo[team]) = 3
    /\ \E i \in DOMAIN games_df : games_df[i].WL \notin {"W", "L"}
    /\ \E i \in DOMAIN games_df : games_df[i].WL = "W"

----------------------------------------------------------------------------
(* The rating replay: claims C1, C2, C3. *)

\* C1: replaying a table with one row per team per game in non-decreasing
\* date order, the rating elo_formula reads for either side of the row it
\* is about to apply is an entry dated strictly before that row's date.
C1_NoLookahead ==
    (/\ pc = "replay"
     /\ row <= Len(games_df)
     /\ DateOrdered(games_df)
     /\ OneRowPerSide(games_df))
    => \A side \in {Winner(games_df[row]), Loser(games_df[row])} :
            Last(elo[side])[1] < games_df[row].GAME_DATE

\* C2: replaying a table with one row per team per game in non-decreasing
\* date order in which no team plays twice on one date, the dates of every
\* team's series are strictly increasing.
C2_SeriesStrictlyIncreasing ==
    (/\ DateOrdered(games_df)
     /\ OneRowPerSide(games_df)
     /\ OneGamePerDay(games_df))
    => \A t \in DOMAIN elo :
            \A i \in 1..(Len(elo[t]) - 1) : elo[t][i][1] < elo[t][i + 1][1]

\* C3: every application of elo_formula to a game between two different
\* teams appends to the winner a rating above its pre-game rating and to
\* the loser one below, each changed by K * (realized - expected); from
\* 1000 against 1000 the new ratings are exactly 1010 and 990.
C3_WinnerUpLoserDown ==
    [][row' = row + 1 =>
        LET g == games_df[row]
            w == Winner(g)
            l == Loser(g)
            rw == Last(elo[w])[2]
            rl == Last(elo[l])[2]
        IN  w # l =>
            /\ Last(elo'[w])[2] > rw
            /\ Last(elo'[l])[2] < rl
            /\ Last(elo'[w])[2] - rw
                = Div(K_FACTOR * Unit * (Precision - expected_outcome(rw, rl, M)), Precision)
            /\ Last(elo'[l])[2] - rl
                = Div(K_FACTOR * Unit * (0 - expected_outcome(rl, rw, M)), Precision)
            /\ (rw = 1000 * Unit /\ rl = 1000 * Unit)
                => /\ Last(elo'[w])[2] = 1010 * Unit
                   /\ Last(elo'[l])[2] = 990 * Unit]_vars

\* A first game has been applied at 1000 against 1000, and a second one at
\* unequal ratings.
C3_Witness ==
    /\ row = 3
    /\ \E a, b \in DOMAIN elo :
        /\ a # b
        /\ Len(elo[a]) = 3
        /\ elo[a][2] = <<games_df[1].GAME_DATE, 1010 * Unit>>
        /\ elo[a][3][2] > 1010 * Unit
        /\ Len(elo[b]) > 1
        /\ elo[b][2][2] = 990 * Unit

====
